---- MODULE Spec2Model ----
(***************************************************************************)
(* A model of bbot's BaseModule (src/bbot/modules/base.py): the incoming   *)
(* queue and its filters, the worker loop in single-event and batch mode,  *)
(* the error state, cleanup, and the outgoing emission gate.               *)
(*                                                                         *)
(* Threads are modelled by their positions: the worker thread (wpc), the   *)
(* orchestrator thread calling queue_event (qe), a thread calling          *)
(* set_error_state (se), the threads calling _cleanup (cl) and the handler *)
(* threads calling emit_event (em).                                        *)
(***************************************************************************)
EXTENDS Integers, Sequences, FiniteSets, TLC

VARIABLES
    cfg,               \* the module's class attributes (base.py 17-81)
    scan,              \* scan.stopping, scan.status, scan.scope_search_distance
    others,            \* the other modules of scan.modules: batch_size, running
    errored,           \* self.errored
    _event_queue,      \* self._event_queue: "None", "Queue" or "False"
    items,             \* the contents of the SimpleQueue object
    _batch_idle,       \* self._batch_idle
    iterations,        \* _worker's local counter, kept modulo 10
    _cleanedup,        \* self._cleanedup
    _event_semaphore,  \* the value of self._event_semaphore
    wpc,               \* the worker thread: "run" or "exited"
    tasks,             \* handler invocations, in dispatch order
    ndone,             \* how many pool tasks of `tasks` have terminated
    main_pool,         \* self.thread_pool.num_tasks
    qe,                \* the queue_event call in progress
    se,                \* the set_error_state call in progress
    cl,                \* the _cleanup calls in progress, per calling thread
    ran,               \* the callbacks _cleanup has run, in order
    em,                \* the emit_event calls in progress, per handler thread
    outstanding,       \* events handed to scan.manager.emit_event, not yet released
    hist               \* history: what the calls so far did (read by no action)

vars == <<cfg, scan, others, errored, _event_queue, items, _batch_idle,
          iterations, _cleanedup, _event_semaphore, wpc, tasks, ndone,
          main_pool, qe, se, cl, ran, em, outstanding, hist>>

----------------------------------------------------------------------------
(* Bounds of the model *)

\* queue_event calls made in one behaviour
MaxCalls == 3
\* the largest scope distance an incoming event carries
MaxDist == 3
\* queue_event calls made in one behaviour of SpecFilter
MaxFilterCalls == 1
\* the longest queue content events_waiting is applied to
MaxLen == 3
\* emit_event calls made in one behaviour
MaxEmits == 4
\* _cleanup calls made in one behaviour
MaxCleanups == 2
\* tasks a module's handlers keep in the general pool at once
MaxMain == 1
\* queue_event calls made in one behaviour of SpecBatch
MaxBatchCalls == 2
\* the largest batch_size of a modelled module
MaxBatch == 3
\* handler threads calling emit_event at the same time
MaxHandlers == 2
\* the largest gate capacity (_qsize) of a modelled module
MaxQsize == 2

----------------------------------------------------------------------------
(* Values *)

\* scope_distance_modifier = None is <<>>, an integer k is <<k>>
None == <<>>
Some(k) == <<k>>

Str(s) == [kind |-> "str", val |-> s]
Token(s, i) == [kind |-> "str", val |-> s, id |-> i]
IsStr(x) == x.kind = "str"
IsFinished(x) == IsStr(x) /\ x.val = "FINISHED"
IsReport(x) == IsStr(x) /\ x.val = "REPORT"

Event(i, t, d, tg, st, m) ==
    [kind |-> "event", id |-> i, type |-> t, scope_distance |-> d,
     tags |-> tg, source_type |-> st, module |-> m]

Max(a, b) == IF a >= b THEN a ELSE b
Min(a, b) == IF a <= b THEN a ELSE b

RECURSIVE SelectEvents(_)
SelectEvents(s) ==
    IF s = <<>> THEN <<>>
    ELSE IF IsStr(Head(s)) THEN SelectEvents(Tail(s))
    ELSE <<Head(s)>> \o SelectEvents(Tail(s))

Range(s) == {s[i] : i \in 1..Len(s)}

----------------------------------------------------------------------------
(* The acceptance filter *)

Accept == [acceptable |-> TRUE, reason |-> ""]
Reject(r) == [acceptable |-> FALSE, reason |-> r]

\* get_watched_events(): set(self.watched_events)
get_watched_events(c) == c.watched_events

\* max_scope_distance without the target_only case
max_scope_distance_no_target(c, sc) ==
    IF c.in_scope_only THEN 0
    ELSE IF sc.scope_search_distance + c.scope_distance_modifier[1] >= 0
         THEN sc.scope_search_distance + c.scope_distance_modifier[1]
         ELSE 0

\* max_scope_distance
max_scope_distance(c, sc) ==
    IF c.in_scope_only \/ c.target_only THEN 0
    ELSE Max(0, sc.scope_search_distance + c.scope_distance_modifier[1])

\* _event_precheck without the test of the current module's name (line 391)
_event_precheck_any_consumer(c, event) ==
    IF IsStr(event)
    THEN IF event.val \in {"FINISHED", "REPORT"} THEN Accept
         ELSE Reject("string value is invalid")
    ELSE IF ~(\E t \in {"*", event.type} : t \in get_watched_events(c))
    THEN Reject("its type is not in watched_events")
    ELSE IF c.target_only /\ "target" \notin event.tags
    THEN Reject("it did not meet target_only filter criteria")
    ELSE IF /\ event.source_type = "IP_RANGE"
            /\ event.type = "IP_ADDRESS"
            /\ event.module = "speculate"
            /\ \A x \in {"IP_RANGE", "IP_ADDRESS"} : x \in c.watched_events
    THEN Reject("module consumes IP ranges directly")
    ELSE Accept

\* _event_precheck(event)
_event_precheck(c, event) ==
    IF IsStr(event)
    THEN IF event.val \in {"FINISHED", "REPORT"} THEN Accept
         ELSE Reject("string value is invalid")
    ELSE IF ~(\E t \in {"*", event.type} : t \in get_watched_events(c))
    THEN Reject("its type is not in watched_events")
    ELSE IF c.target_only /\ "target" \notin event.tags
    THEN Reject("it did not meet target_only filter criteria")
    ELSE IF /\ event.source_type = "IP_RANGE"
            /\ event.type = "IP_ADDRESS"
            /\ event.module = "speculate"
            /\ c.name # "speculate"
            /\ \A x \in {"IP_RANGE", "IP_ADDRESS"} : x \in c.watched_events
    THEN Reject("module consumes IP ranges directly")
    ELSE Accept

\* _event_postcheck(event); fe is what the module's filter_event(event)
\* does when it is called: "true", "false" or "raise"
_event_postcheck(c, sc, event, fe) ==
    IF IsStr(event) THEN Accept @@ [filter_event_called |-> FALSE]
    ELSE IF c.in_scope_only /\ event.scope_distance > 0
    THEN Reject("it did not meet in_scope_only filter criteria")
             @@ [filter_event_called |-> FALSE]
    ELSE IF c.scope_distance_modifier # None /\ event.scope_distance < 0
    THEN Reject("its scope_distance is invalid.")
             @@ [filter_event_called |-> FALSE]
    ELSE IF /\ c.scope_distance_modifier # None
            /\ event.scope_distance > max_scope_distance(c, sc)
    THEN Reject("its scope_distance exceeds the maximum allowed")
             @@ [filter_event_called |-> FALSE]
    ELSE IF fe = "false"
    THEN Reject("did not meet custom filter criteria")
             @@ [filter_event_called |-> TRUE]
    ELSE Accept @@ [filter_event_called |-> TRUE]

\* _filter_event that runs the post-check whatever the pre-check said
_filter_event_always_post(c, sc, event, fe, precheck_only) ==
    LET pre == _event_precheck(c, event)
        post == _event_postcheck(c, sc, event, fe)
    IN [acceptable |-> post.acceptable, reason |-> post.reason,
        precheck |-> pre.acceptable, postchecked |-> TRUE,
        filter_event_called |-> post.filter_event_called]

\* _filter_event(event, precheck_only): the verdict, and which checks ran
_filter_event(c, sc, event, fe, precheck_only) ==
    LET pre == _event_precheck(c, event) IN
    IF pre.acceptable /\ ~precheck_only
    THEN LET post == _event_postcheck(c, sc, event, fe) IN
         [acceptable |-> post.acceptable, reason |-> post.reason,
          precheck |-> pre.acceptable, postchecked |-> TRUE,
          filter_event_called |-> post.filter_event_called]
    ELSE [acceptable |-> pre.acceptable, reason |-> pre.reason,
          precheck |-> pre.acceptable, postchecked |-> FALSE,
          filter_event_called |-> FALSE]

----------------------------------------------------------------------------
(* The incoming queue *)

\* the event_queue property: a queue is created on first access
event_queue(h) == IF h = "None" THEN "Queue" ELSE h

\* the truth value of the handle: a SimpleQueue object is true, False is not
Truthy(h) == event_queue(h) = "Queue"

\* num_queued_events
num_queued_events(h, q) == IF Truthy(h) THEN Len(q) ELSE 0

\* events_waiting: the loop over get_nowait, with `left` events still wanted
RECURSIVE events_waiting_loop(_, _, _)
events_waiting_loop(q, left, acc) ==
    IF ~(left > 0) \/ q = <<>>
    THEN [events |-> acc.events, finish |-> acc.finish,
          report |-> acc.report, rest |-> q]
    ELSE LET event == Head(q) IN
         IF IsStr(event)
         THEN events_waiting_loop(Tail(q), left,
                  [events |-> acc.events,
                   finish |-> acc.finish \/ event.val = "FINISHED",
                   report |-> acc.report \/ event.val = "REPORT"])
         ELSE events_waiting_loop(Tail(q), left - 1,
                  [events |-> Append(acc.events, event),
                   finish |-> acc.finish, report |-> acc.report])

\* events_waiting with a loop in which a token uses up one of the
\* batch_size places, as an event does
RECURSIVE events_waiting_tokens_count_loop(_, _, _)
events_waiting_tokens_count_loop(q, left, acc) ==
    IF ~(left > 0) \/ q = <<>>
    THEN [events |-> acc.events, finish |-> acc.finish,
          report |-> acc.report, rest |-> q]
    ELSE LET event == Head(q) IN
         events_waiting_tokens_count_loop(Tail(q), left - 1,
             IF IsStr(event)
             THEN [events |-> acc.events,
                   finish |-> acc.finish \/ event.val = "FINISHED",
                   report |-> acc.report \/ event.val = "REPORT"]
             ELSE [events |-> Append(acc.events, event),
                   finish |-> acc.finish, report |-> acc.report])

events_waiting_tokens_count(c, h, q) ==
    IF Truthy(h)
    THEN events_waiting_tokens_count_loop(q, c.batch_size,
             [events |-> <<>>, finish |-> FALSE, report |-> FALSE])
    ELSE [events |-> <<>>, finish |-> FALSE, report |-> FALSE, rest |-> q]

\* events_waiting on a queue holding q: (events, finish, report), and what
\* is left in the queue
events_waiting(c, h, q) ==
    IF Truthy(h)
    THEN events_waiting_loop(q, c.batch_size,
             [events |-> <<>>, finish |-> FALSE, report |-> FALSE])
    ELSE [events |-> <<>>, finish |-> FALSE, report |-> FALSE, rest |-> q]

\* what a drain that left `rest` of q took out of the queue
Taken(q, rest) == SubSeq(q, 1, Len(q) - Len(rest))

----------------------------------------------------------------------------
(* Status *)

\* the internal pool's tasks of `tasks` (an output module's handle_event
\* runs on the worker thread instead)
PoolTasks(ts) == SelectSeq(ts, LAMBDA t : ~t.sync)

\* self._internal_thread_pool.num_tasks
internal_pool(ts, nd) == Len(PoolTasks(ts)) - nd

\* status["running"]: _is_running over main_pool, internal_pool and total
running(ts, nd, mp) ==
    \E count \in {mp, internal_pool(ts, nd), mp + internal_pool(ts, nd)} :
        count > 0

\* the running flags of the modules of scan.modules with batch_size > 1
BatchModulesRunning(c, ts, nd, mp, oth) ==
    (IF c.batch_size > 1 THEN {running(ts, nd, mp)} ELSE {})
        \cup {oth[i].running : i \in {j \in 1..Len(oth) : oth[j].batch_size > 1}}

\* _force_batch without the stalemate test of lines 304-306
_force_batch_no_stalemate(idle, c, sc, flags) ==
    \/ idle >= c.batch_wait
    \/ sc.status = "FINISHING"

\* _force_batch without the idle test of lines 298-299
_force_batch_no_idle(idle, c, sc, flags) ==
    \/ sc.status = "FINISHING"
    \/ \A r \in flags : ~r

\* _force_batch
_force_batch(idle, c, sc, flags) ==
    \/ idle >= c.batch_wait
    \/ sc.status = "FINISHING"
    \/ \A r \in flags : ~r

----------------------------------------------------------------------------
(* Handler invocations *)

Task(k, evs, cb, sy, tk) ==
    [kind |-> k, events |-> evs, on_finish |-> cb, sync |-> sy, tokens |-> tk]

\* the ids of the FINISHED (REPORT) tokens among the items s
TokenIds(s, v) == {s[i].id : i \in {j \in 1..Len(s) : IsStr(s[j]) /\ s[j].val = v}}

\* the record of a worker iteration in batch mode (history)
NoIteration ==
    [valid |-> FALSE, stalemate |-> FALSE, force |-> FALSE, queued |-> 0,
     called |-> FALSE, events |-> <<>>, finish |-> FALSE, report |-> FALSE,
     taken |-> <<>>, submitted |-> <<>>]

----------------------------------------------------------------------------
(* Groups of variables *)

queueVars == <<errored, _event_queue, items>>
workVars == <<_batch_idle, iterations, wpc, tasks, ndone, main_pool>>
cleanVars == <<_cleanedup, cl, ran>>
emitVars == <<_event_semaphore, em, outstanding>>

----------------------------------------------------------------------------
(* queue_event *)

QeIdle == [pc |-> "idle", event |-> Str(""), began_errored |-> FALSE]

\* line 440 without the test of self.errored
queue_event_accepting_errored(h, err) == event_queue(h) # "None"

\* line 440: self.event_queue is not None and not self.errored
queue_event_accepting(h, err) == event_queue(h) # "None" /\ ~err

\* lines 440-446: the state check and the filter. x is the argument and fe
\* what filter_event does if it is called.
QueueEventBegin(x, fe) ==
    /\ qe.pc = "idle"
    /\ hist.calls < MaxCalls
    /\ _event_queue' = event_queue(_event_queue)
    /\ IF ~queue_event_accepting(_event_queue, errored)
       THEN /\ qe' = qe
            /\ hist' = [hist EXCEPT !.calls = @ + 1, !.refused = TRUE]
       ELSE LET f == _filter_event(cfg, scan, x, fe, FALSE) IN
            /\ hist' = [hist EXCEPT
                   !.calls = @ + 1,
                   !.prerejected = IF f.precheck THEN @ ELSE @ \cup {x},
                   !.postchecked = IF f.postchecked THEN @ \cup {x} ELSE @,
                   !.filtered = IF f.filter_event_called THEN @ \cup {x} ELSE @,
                   !.rejected = IF f.acceptable THEN @ ELSE @ \cup {x}]
            /\ qe' = IF ~f.acceptable /\ f.reason # ""
                     THEN qe
                     ELSE [pc |-> "put", event |-> x, began_errored |-> errored]
    /\ UNCHANGED <<cfg, scan, others, errored, items, se>>
    /\ UNCHANGED <<workVars, cleanVars, emitVars>>

\* line 447: self.event_queue.put(event); on the disarmed handle (False)
\* the attribute lookup raises
QueueEventPut ==
    /\ qe.pc = "put"
    /\ qe' = QeIdle
    /\ IF event_queue(_event_queue) = "False"
       THEN /\ hist' = [hist EXCEPT !.put_on_false = TRUE]
            /\ UNCHANGED <<_event_queue, items>>
       ELSE /\ _event_queue' = event_queue(_event_queue)
            /\ items' = Append(items, qe.event)
            /\ hist' = [hist EXCEPT
                   !.accepted = @ \cup {qe.event},
                   !.late_put = @ \/ qe.began_errored,
                   !.waited = 0]
    /\ UNCHANGED <<cfg, scan, others, errored, se>>
    /\ UNCHANGED <<workVars, cleanVars, emitVars>>

----------------------------------------------------------------------------
(* set_error_state *)

\* lines 454-458: the flag is set, and the drain begins if the handle is true
SetErrorBegin ==
    /\ se = "idle"
    /\ IF ~errored
       THEN /\ errored' = TRUE
            /\ _event_queue' = event_queue(_event_queue)
            /\ se' = IF Truthy(_event_queue) THEN "drain" ELSE "idle"
       ELSE UNCHANGED <<errored, _event_queue, se>>
    /\ UNCHANGED <<cfg, scan, others, items, qe, hist>>
    /\ UNCHANGED <<workVars, cleanVars, emitVars>>

\* lines 460-462: one get_nowait; queue.Empty ends the loop
SetErrorDrain ==
    /\ se = "drain"
    /\ IF items # <<>>
       THEN /\ items' = Tail(items)
            /\ hist' = [hist EXCEPT !.dropped = @ \cup {Head(items)}]
            /\ se' = se
       ELSE /\ se' = "disarm"
            /\ UNCHANGED <<items, hist>>
    /\ UNCHANGED <<cfg, scan, others, errored, _event_queue, qe>>
    /\ UNCHANGED <<workVars, cleanVars, emitVars>>

\* line 465: self._event_queue = False
SetErrorDisarm ==
    /\ se = "disarm"
    /\ _event_queue' = "False"
    /\ se' = "idle"
    /\ UNCHANGED <<cfg, scan, others, errored, items, qe, hist>>
    /\ UNCHANGED <<workVars, cleanVars, emitVars>>

----------------------------------------------------------------------------
(* The worker loop: one action is one iteration of `while not stopping` *)

\* iterations % 10 == 0 (line 316)
IdleEvery == 10

\* lines 336-345 with the branch for events (lines 341-345) left out
Dispatch_strings_only(c, e) ==
    IF IsStr(e)
    THEN IF e.val = "FINISHED" THEN <<Task("finish", <<>>, "None", FALSE, {e.id})>>
         ELSE IF e.val = "REPORT" THEN <<Task("report", <<>>, "None", FALSE, {e.id})>>
         ELSE <<>>
    ELSE <<>>

\* lines 336-345 with every module's handle_event submitted to the pool
Dispatch_always_pool(c, e) ==
    IF IsStr(e)
    THEN IF e.val = "FINISHED" THEN <<Task("finish", <<>>, "None", FALSE, {e.id})>>
         ELSE IF e.val = "REPORT" THEN <<Task("report", <<>>, "None", FALSE, {e.id})>>
         ELSE <<>>
    ELSE <<Task("handle_event", <<e>>, "None", FALSE, {})>>

\* lines 336-345: what the single-event loop does with the dequeued e
Dispatch(c, e) ==
    IF IsStr(e)
    THEN IF e.val = "FINISHED" THEN <<Task("finish", <<>>, "None", FALSE, {e.id})>>
         ELSE IF e.val = "REPORT" THEN <<Task("report", <<>>, "None", FALSE, {e.id})>>
         ELSE <<>>
    ELSE IF c._type = "output"
         THEN <<Task("handle_event", <<e>>, "None", TRUE, {})>>
         ELSE <<Task("handle_event", <<e>>, "None", FALSE, {})>>

\* lines 325-345: batch_size = 1
WorkerSingle ==
    /\ wpc = "run"
    /\ ~(cfg.batch_size > 1)
    /\ IF scan.stopping \/ ~Truthy(_event_queue)
       THEN /\ wpc' = "exited"
            /\ UNCHANGED <<_event_queue, items, tasks>>
       ELSE /\ wpc' = wpc
            /\ _event_queue' = event_queue(_event_queue)
            /\ IF items = <<>>
               THEN UNCHANGED <<items, tasks>>
               ELSE /\ items' = Tail(items)
                    /\ tasks' = tasks \o Dispatch(cfg, Head(items))
    /\ UNCHANGED <<cfg, scan, others, errored, qe, se, hist>>
    /\ UNCHANGED <<_batch_idle, iterations, ndone, main_pool>>
    /\ UNCHANGED <<cleanVars, emitVars>>

\* lines 180-185 with the tests of report and finish in the other order
on_finish_callback_report_first(finish, report) ==
    IF report THEN "report" ELSE IF finish THEN "finish" ELSE "None"

\* lines 180-185: the callback chained to the batch
on_finish_callback(finish, report) ==
    IF finish THEN "finish" ELSE IF report THEN "report" ELSE "None"

\* _handle_batch(force) on a queue holding q: what it returns, what it
\* submits and what it leaves
_handle_batch(c, h, q, idle, force) ==
    LET nq == num_queued_events(h, q) IN
    IF nq > 0 /\ (force \/ nq >= c.batch_size)
    THEN LET w == events_waiting(c, h, q)
             cb == on_finish_callback(w.finish, w.report)
         IN [called |-> TRUE, idle |-> 0, w |-> w, rest |-> w.rest,
             submitted |->
                 IF w.events # <<>>
                 THEN <<Task("handle_batch", w.events, cb, FALSE,
                             IF cb = "finish" THEN TokenIds(Taken(q, w.rest), "FINISHED")
                             ELSE IF cb = "report" THEN TokenIds(Taken(q, w.rest), "REPORT")
                             ELSE {})>>
                 ELSE <<>>,
             ret |-> w.events # <<>>]
    ELSE [called |-> FALSE, idle |-> idle,
          w |-> [events |-> <<>>, finish |-> FALSE, report |-> FALSE, rest |-> q],
          rest |-> q, submitted |-> <<>>, ret |-> FALSE]

\* lines 313-323: batch_size > 1
WorkerBatch ==
    /\ wpc = "run"
    /\ cfg.batch_size > 1
    /\ IF scan.stopping
       THEN /\ wpc' = "exited"
            /\ UNCHANGED <<_event_queue, items, tasks, _batch_idle, iterations, hist>>
       ELSE LET it == (iterations + 1) % IdleEvery
                idle1 == IF it = 0 THEN _batch_idle + 1 ELSE _batch_idle
                flags == BatchModulesRunning(cfg, tasks, ndone, main_pool, others)
                force == _force_batch(idle1, cfg, scan, flags)
                idle2 == IF force THEN 0 ELSE idle1
                hb == _handle_batch(cfg, _event_queue, items, idle2, force)
            IN /\ wpc' = wpc
               /\ iterations' = it
               /\ _batch_idle' = hb.idle
               /\ _event_queue' = event_queue(_event_queue)
               /\ items' = hb.rest
               /\ tasks' = tasks \o hb.submitted
               /\ hist' = [hist EXCEPT
                      !.waited = IF Len(items) > 0 /\ ~hb.called
                                 THEN Min(@ + 1, IdleEvery * cfg.batch_wait)
                                 ELSE 0,
                      !.it =
                      [valid |-> TRUE, stalemate |-> \A r \in flags : ~r,
                       force |-> force,
                       queued |-> num_queued_events(_event_queue, items),
                       called |-> hb.called, events |-> hb.w.events,
                       finish |-> hb.w.finish, report |-> hb.w.report,
                       taken |-> Taken(items, hb.rest),
                       submitted |-> hb.submitted]]
    /\ UNCHANGED <<cfg, scan, others, errored, qe, se>>
    /\ UNCHANGED <<ndone, main_pool>>
    /\ UNCHANGED <<cleanVars, emitVars>>

----------------------------------------------------------------------------
(* The pools and the scan *)

\* a task of the internal pool terminates
TaskDone ==
    /\ internal_pool(tasks, ndone) > 0
    /\ ndone' = ndone + 1
    /\ UNCHANGED <<cfg, scan, others, qe, se, hist>>
    /\ UNCHANGED <<queueVars, cleanVars, emitVars>>
    /\ UNCHANGED <<_batch_idle, iterations, wpc, tasks, main_pool>>

\* a running handler calls submit_task (line 172): thread_pool.num_tasks
SubmitTask ==
    /\ internal_pool(tasks, ndone) > 0
    /\ main_pool < MaxMain
    /\ main_pool' = main_pool + 1
    /\ UNCHANGED <<cfg, scan, others, qe, se, hist>>
    /\ UNCHANGED <<queueVars, cleanVars, emitVars>>
    /\ UNCHANGED <<_batch_idle, iterations, wpc, tasks, ndone>>

MainTaskDone ==
    /\ main_pool > 0
    /\ main_pool' = main_pool - 1
    /\ UNCHANGED <<cfg, scan, others, qe, se, hist>>
    /\ UNCHANGED <<queueVars, cleanVars, emitVars>>
    /\ UNCHANGED <<_batch_idle, iterations, wpc, tasks, ndone>>

\* the scan's status becomes FINISHING
ScanFinishing ==
    /\ scan.status = "RUNNING"
    /\ ~scan.stopping
    /\ scan' = [scan EXCEPT !.status = "FINISHING"]
    /\ UNCHANGED <<cfg, others, qe, se, hist>>
    /\ UNCHANGED <<queueVars, workVars, cleanVars, emitVars>>

\* the scan begins stopping
ScanStop ==
    /\ ~scan.stopping
    /\ scan' = [scan EXCEPT !.stopping = TRUE]
    /\ UNCHANGED <<cfg, others, qe, se, hist>>
    /\ UNCHANGED <<queueVars, workVars, cleanVars, emitVars>>

----------------------------------------------------------------------------
(* _cleanup, called by thread t *)

ClIdle == [pc |-> "idle", i |-> 0, call |-> 0]

\* line 435: [self.cleanup] + self.cleanup_callbacks
CleanupList(c) ==
    <<[name |-> "cleanup", callable |-> TRUE]>> \o c.cleanup_callbacks

\* self.catch(callback, _force=True): the harness calls the callback
catch(log, callback, n) == Append(log, [name |-> callback.name, call |-> n])

\* line 433: if not self._cleanedup
CleanupCheck(t) ==
    /\ cl[t].pc = "idle"
    /\ hist.cleanups < MaxCleanups
    /\ hist' = [hist EXCEPT !.cleanups = @ + 1,
                            !.cleanup_errored = @ \cup
                                (IF errored THEN {hist.cleanups + 1} ELSE {})]
    /\ cl' = [cl EXCEPT ![t] =
                 IF ~_cleanedup
                 THEN [pc |-> "set", i |-> 0, call |-> hist.cleanups + 1]
                 ELSE ClIdle]
    /\ UNCHANGED <<cfg, scan, others, qe, se, _cleanedup, ran>>
    /\ UNCHANGED <<queueVars, workVars, emitVars>>

\* line 434 left out: the flag is never set
CleanupSetForgets(t) ==
    /\ cl[t].pc = "set"
    /\ cl' = [cl EXCEPT ![t].pc = "run", ![t].i = 1]
    /\ UNCHANGED <<cfg, scan, others, qe, se, ran, hist, _cleanedup>>
    /\ UNCHANGED <<queueVars, workVars, emitVars>>

\* line 434: self._cleanedup = True
CleanupSet(t) ==
    /\ cl[t].pc = "set"
    /\ _cleanedup' = TRUE
    /\ cl' = [cl EXCEPT ![t].pc = "run", ![t].i = 1]
    /\ UNCHANGED <<cfg, scan, others, qe, se, ran, hist>>
    /\ UNCHANGED <<queueVars, workVars, emitVars>>

\* lines 435-437: the next callback of the list, run if it is callable
CleanupRun(t) ==
    /\ cl[t].pc = "run"
    /\ LET l == CleanupList(cfg) IN
       IF cl[t].i > Len(l)
       THEN /\ cl' = [cl EXCEPT ![t] = ClIdle]
            /\ ran' = ran
       ELSE /\ cl' = [cl EXCEPT ![t].i = @ + 1]
            /\ ran' = IF l[cl[t].i].callable
                      THEN catch(ran, l[cl[t].i], cl[t].call)
                      ELSE ran
    /\ UNCHANGED <<cfg, scan, others, qe, se, _cleanedup, hist>>
    /\ UNCHANGED <<queueVars, workVars, emitVars>>

----------------------------------------------------------------------------
(* emit_event, called by handler thread h *)

\* event.acquire_semaphore(timeout=0.1) on a semaphore of value v: whether
\* a permit was acquired before the timeout, and the value left
acquire_semaphore(v) ==
    IF v > 0 THEN [okay |-> TRUE, value |-> v - 1]
    ELSE [okay |-> FALSE, value |-> v]

\* event.release_semaphore()
release_semaphore(v) == v + 1

\* what an emit_event call has done so far (history): the permits it holds
\* and how it returned ("" while it runs)
NoCall == [net |-> 0, outcome |-> ""]

\* lines 211-217: the scan is stopping, or make_event returns no event
\* (made = FALSE), or the acquire loop is entered
EmitBegin(h, made) ==
    /\ em[h] = "idle"
    /\ hist.emits < MaxEmits
    /\ hist' = [hist EXCEPT
           !.emits = @ + 1,
           !.em[h] = [net |-> 0,
                      outcome |-> IF scan.stopping THEN "stopping"
                                  ELSE IF ~made THEN "no event"
                                  ELSE ""]]
    /\ em' = [em EXCEPT ![h] =
                 IF scan.stopping \/ ~made THEN "idle" ELSE "acquire"]
    /\ UNCHANGED <<cfg, scan, others, qe, se, _event_semaphore, outstanding>>
    /\ UNCHANGED <<queueVars, workVars, cleanVars>>

\* lines 218-221 without `if not okay: continue`
EmitAcquireNoRetry(h) ==
    /\ em[h] = "acquire"
    /\ IF scan.stopping
       THEN /\ em' = [em EXCEPT ![h] = "idle"]
            /\ hist' = [hist EXCEPT !.em[h].outcome = "aborted"]
            /\ UNCHANGED _event_semaphore
       ELSE /\ _event_semaphore' = acquire_semaphore(_event_semaphore).value
            /\ em' = [em EXCEPT ![h] = "emit"]
            /\ hist' = [hist EXCEPT !.em[h].net = @ + 1]
    /\ UNCHANGED <<cfg, scan, others, qe, se, outstanding>>
    /\ UNCHANGED <<queueVars, workVars, cleanVars>>

\* lines 218-221: one pass of `while not self.scan.stopping`
EmitAcquire(h) ==
    /\ em[h] = "acquire"
    /\ IF scan.stopping
       THEN /\ em' = [em EXCEPT ![h] = "idle"]
            /\ hist' = [hist EXCEPT !.em[h].outcome = "aborted"]
            /\ UNCHANGED _event_semaphore
       ELSE LET a == acquire_semaphore(_event_semaphore) IN
            /\ _event_semaphore' = a.value
            /\ em' = [em EXCEPT ![h] = IF ~a.okay THEN "acquire" ELSE "emit"]
            /\ hist' = [hist EXCEPT
                   !.em[h].net = @ + (_event_semaphore - a.value)]
    /\ UNCHANGED <<cfg, scan, others, qe, se, outstanding>>
    /\ UNCHANGED <<queueVars, workVars, cleanVars>>

\* lines 222-233 with a producer that releases the permit after a call
\* that returned normally, too
EmitCallReleases(h, raises) ==
    /\ em[h] = "emit"
    /\ IF raises
       THEN /\ em' = [em EXCEPT ![h] = "except"]
            /\ hist' = [hist EXCEPT !.handed = @ + 1]
            /\ UNCHANGED <<outstanding, _event_semaphore>>
       ELSE /\ em' = [em EXCEPT ![h] = "idle"]
            /\ outstanding' = outstanding + 1
            /\ _event_semaphore' = release_semaphore(_event_semaphore)
            /\ hist' = [hist EXCEPT !.handed = @ + 1,
                                    !.em[h].outcome = "returned",
                                    !.em[h].net = @ - 1]
    /\ UNCHANGED <<cfg, scan, others, qe, se>>
    /\ UNCHANGED <<queueVars, workVars, cleanVars>>

\* lines 222-228: scan.manager.emit_event(event, ...) returns or raises
EmitCall(h, raises) ==
    /\ em[h] = "emit"
    /\ IF raises
       THEN /\ em' = [em EXCEPT ![h] = "except"]
            /\ hist' = [hist EXCEPT !.handed = @ + 1]
            /\ UNCHANGED outstanding
       ELSE /\ em' = [em EXCEPT ![h] = "idle"]
            /\ outstanding' = outstanding + 1
            /\ hist' = [hist EXCEPT !.handed = @ + 1,
                                    !.em[h].outcome = "returned"]
    /\ UNCHANGED <<cfg, scan, others, qe, se, _event_semaphore>>
    /\ UNCHANGED <<queueVars, workVars, cleanVars>>

\* lines 229-233 without event.release_semaphore()
EmitExcept_keeps_permit(h) ==
    /\ em[h] = "except"
    /\ em' = [em EXCEPT ![h] = "idle"]
    /\ hist' = [hist EXCEPT !.em[h].outcome = "raised"]
    /\ UNCHANGED <<cfg, scan, others, qe, se, outstanding, _event_semaphore>>
    /\ UNCHANGED <<queueVars, workVars, cleanVars>>

\* lines 229-233: the producer releases the permit it acquired
EmitExcept(h) ==
    /\ em[h] = "except"
    /\ _event_semaphore' = release_semaphore(_event_semaphore)
    /\ em' = [em EXCEPT ![h] = "idle"]
    /\ hist' = [hist EXCEPT
           !.giveback = @ + 1,
           !.em[h].outcome = "raised",
           !.em[h].net = @ - (_event_semaphore' - _event_semaphore)]
    /\ UNCHANGED <<cfg, scan, others, qe, se, outstanding>>
    /\ UNCHANGED <<queueVars, workVars, cleanVars>>

\* the downstream consumer retires an event and releases its permit
Release ==
    /\ outstanding > 0
    /\ outstanding' = outstanding - 1
    /\ _event_semaphore' = release_semaphore(_event_semaphore)
    /\ hist' = [hist EXCEPT !.released = @ + 1]
    /\ UNCHANGED <<cfg, scan, others, qe, se, em>>
    /\ UNCHANGED <<queueVars, workVars, cleanVars>>

----------------------------------------------------------------------------
(* Construction *)

\* the class attributes as declared (lines 17-81), with the smallest gate
\* and batch_wait, and no cleanup callbacks registered (line 101)
BaseCfg ==
    [name |-> "base", _type |-> "scan", watched_events |-> {"DNS_NAME"},
     target_only |-> FALSE, in_scope_only |-> FALSE,
     scope_distance_modifier |-> Some(-1), batch_size |-> 1,
     batch_wait |-> 1, _qsize |-> 1, _priority |-> 3,
     cleanup_callbacks |-> <<>>]

HistInit ==
    [calls |-> 0, accepted |-> {}, rejected |-> {}, prerejected |-> {},
     postchecked |-> {}, filtered |-> {}, dropped |-> {}, refused |-> FALSE,
     late_put |-> FALSE, put_on_false |-> FALSE, it |-> NoIteration,
     cleanups |-> 0, cleanup_errored |-> {}, emits |-> 0, handed |-> 0,
     before |-> <<>>, waited |-> 0, released |-> 0, giveback |-> 0,
     em |-> [h \in 1..MaxHandlers |-> NoCall],
     pre |-> [valid |-> FALSE], prio |-> [valid |-> FALSE],
     setup |-> [valid |-> FALSE], wexit |-> [valid |-> FALSE]]

\* __init__ (lines 83-103), for a module with attributes c in a scan sc
\* whose other modules are oth
Construct(c, sc, oth) ==
    /\ cfg = c
    /\ scan = sc
    /\ others = oth
    /\ errored = FALSE
    /\ _event_queue = "None"
    /\ items = <<>>
    /\ _batch_idle = 0
    /\ iterations = 0
    /\ _cleanedup = FALSE
    /\ _event_semaphore = c._qsize
    /\ wpc = "run"
    /\ tasks = <<>>
    /\ ndone = 0
    /\ main_pool = 0
    /\ qe = QeIdle
    /\ se = "idle"
    /\ cl = [t \in 1..2 |-> ClIdle]
    /\ ran = <<>>
    /\ em = [h \in 1..MaxHandlers |-> "idle"]
    /\ outstanding = 0
    /\ hist = HistInit

RunningScan == [stopping |-> FALSE, status |-> "RUNNING", scope_search_distance |-> 1]

----------------------------------------------------------------------------
(* Spec: the worker loop, fed by queue_event, with set_error_state *)

\* the modules of this specification: single-event scan and output
\* modules, and a batch module
WorkerCfgs ==
    {[BaseCfg EXCEPT !._type = ty] : ty \in {"scan", "output"}}
        \cup {[BaseCfg EXCEPT !.batch_size = 2]}

\* what the orchestrator queues in this specification: a watched in-scope
\* event or a control token; i identifies the call
PlainItems(i) ==
    {Event(i, "DNS_NAME", 0, {}, "", "other"),
     Token("FINISHED", i), Token("REPORT", i)}

Init == \E c \in WorkerCfgs : Construct(c, RunningScan, <<>>)

Next ==
    \/ \E x \in PlainItems(hist.calls + 1) : QueueEventBegin(x, "true")
    \/ QueueEventPut
    \/ SetErrorBegin
    \/ SetErrorDrain
    \/ SetErrorDisarm
    \/ WorkerSingle
    \/ WorkerBatch
    \/ TaskDone
    \/ ScanStop

Spec == Init /\ [][Next]_vars

----------------------------------------------------------------------------
(* Token ordering *)

\* finish() is scheduled by tasks[k]: submitted on its own, or chained to a
\* batch as its on-finish callback
SchedulesFinish(k) == tasks[k].kind = "finish" \/ tasks[k].on_finish = "finish"

\* event e has been dispatched by one of the first k tasks
DispatchedBy(e, k) == \E j \in 1..k : e \in Range(tasks[j].events)

\* C4: when finish() is scheduled for a FINISHED token, every event that was
\* accepted into the queue before that token has been dispatched to a
\* handler (single-event and batch mode).
C4_TokenOrdering ==
    \A k \in 1..Len(tasks) :
        SchedulesFinish(k) =>
            \A tok \in tasks[k].tokens :
                \A e \in hist.accepted :
                    (~IsStr(e) /\ e.id < tok) => DispatchedBy(e, k)

----------------------------------------------------------------------------
(* Isolated tokens in batch mode *)

\* the last _handle_batch call drained the queue and collected no event
EmptyDrain == hist.it.valid /\ hist.it.called /\ hist.it.events = <<>>

\* C10: when _handle_batch drains the queue, collects no event and observes
\* a FINISHED or REPORT token, it schedules the corresponding callback
\* (finish, or report when no FINISHED token was seen) on the internal pool
\* with no events, and the observed tokens are removed from the queue.
C10_IsolatedTokens ==
    EmptyDrain =>
        /\ hist.it.finish =>
               \E k \in 1..Len(hist.it.submitted) :
                   /\ hist.it.submitted[k].kind = "finish"
                   /\ hist.it.submitted[k].events = <<>>
        /\ (hist.it.report /\ ~hist.it.finish) =>
               \E k \in 1..Len(hist.it.submitted) :
                   /\ hist.it.submitted[k].kind = "report"
                   /\ hist.it.submitted[k].events = <<>>
        /\ \A x \in Range(hist.it.taken) : x \notin Range(items)

----------------------------------------------------------------------------
(* SpecBatch: batch modules among other modules, with the general pool and
   the scan's FINISHING status *)

BatchCfgs ==
    {[BaseCfg EXCEPT !.batch_size = b] : b \in {2, 3}}

\* scan.modules holds, beside this module, another batch module and a
\* single-event module that is always running
OtherModules ==
    <<[batch_size |-> 2, running |-> FALSE], [batch_size |-> 1, running |-> TRUE]>>

\* another batch module of scan.modules starts or stops running
OtherBatchModule ==
    /\ \E i \in {j \in 1..Len(others) : others[j].batch_size > 1} :
           others' = [others EXCEPT ![i].running = ~@]
    /\ UNCHANGED <<cfg, scan, qe, se, hist>>
    /\ UNCHANGED <<queueVars, workVars, cleanVars, emitVars>>

InitBatch == \E c \in BatchCfgs : Construct(c, RunningScan, OtherModules)

NextBatch ==
    \/ /\ hist.calls < MaxBatchCalls
       /\ \E x \in PlainItems(hist.calls + 1) : QueueEventBegin(x, "true")
    \/ QueueEventPut
    \/ WorkerBatch
    \/ TaskDone
    \/ SubmitTask
    \/ MainTaskDone
    \/ OtherBatchModule
    \/ ScanFinishing
    \/ ScanStop

SpecBatch == InitBatch /\ [][NextBatch]_vars

\* the partial batch the last iteration found: at least one queued item,
\* fewer than batch_size
PartialBatch == 0 < hist.it.queued /\ hist.it.queued < cfg.batch_size

\* C6: in a worker-loop iteration that finds every module with
\* batch_size > 1 not running, _force_batch is true, and a worker holding a
\* partial batch flushes it in that same iteration: _handle_batch drains
\* every queued item and submits the events among them as one handle_batch.
C6_ForceFlushStalemate ==
    (hist.it.valid /\ hist.it.stalemate) =>
        /\ hist.it.force
        /\ PartialBatch =>
               /\ hist.it.called
               /\ Len(hist.it.taken) = hist.it.queued
               /\ hist.it.events = SelectEvents(hist.it.taken)
               /\ hist.it.events # <<>> =>
                      /\ Len(hist.it.submitted) = 1
                      /\ hist.it.submitted[1].kind = "handle_batch"
                      /\ hist.it.submitted[1].events = hist.it.events

\* a stalemate alone (no idle timeout, scan still RUNNING) forced the flush
\* of a partial batch holding an event
C6_Witness ==
    /\ hist.it.valid /\ hist.it.stalemate /\ PartialBatch
    /\ hist.it.events # <<>>
    /\ scan.status = "RUNNING"
    /\ iterations # 0
    /\ Len(tasks) > 0 /\ tasks[Len(tasks)].events = hist.it.events

----------------------------------------------------------------------------
(* SpecDrain: events_waiting applied to any queue content *)

\* the queue contents of at most n items: events and control tokens, the
\* item at place i identified by i
RECURSIVE QueueContents(_)
QueueContents(n) ==
    IF n = 0 THEN {<<>>}
    ELSE LET shorter == QueueContents(n - 1) IN
         shorter \cup
             {Append(q, x) : q \in {r \in shorter : Len(r) = n - 1},
                             x \in PlainItems(n)}

DrainCfgs == {[BaseCfg EXCEPT !.batch_size = b] : b \in 1..MaxBatch}

InitDrain ==
    \E c \in DrainCfgs, q \in QueueContents(MaxLen), h \in {"None", "Queue", "False"} :
        /\ h = "None" => q = <<>>
        /\ cfg = c
        /\ scan = RunningScan
        /\ others = <<>>
        /\ errored = (h = "False")
        /\ _event_queue = h
        /\ items = q
        /\ _batch_idle = 0
        /\ iterations = 0
        /\ _cleanedup = FALSE
        /\ _event_semaphore = c._qsize
        /\ wpc = "run"
        /\ tasks = <<>>
        /\ ndone = 0
        /\ main_pool = 0
        /\ qe = QeIdle
        /\ se = "idle"
        /\ cl = [t \in 1..2 |-> ClIdle]
        /\ ran = <<>>
        /\ em = [t \in 1..MaxHandlers |-> "idle"]
        /\ outstanding = 0
        /\ hist = [HistInit EXCEPT !.before = q]

\* one evaluation of the events_waiting property
EventsWaiting ==
    /\ ~hist.it.valid
    /\ LET w == events_waiting(cfg, _event_queue, items) IN
       /\ _event_queue' = event_queue(_event_queue)
       /\ items' = w.rest
       /\ hist' = [hist EXCEPT !.it =
              [NoIteration EXCEPT !.valid = TRUE, !.called = TRUE,
                                  !.queued = Len(items),
                                  !.events = w.events, !.finish = w.finish,
                                  !.report = w.report,
                                  !.taken = Taken(items, w.rest)]]
    /\ UNCHANGED <<cfg, scan, others, errored, qe, se>>
    /\ UNCHANGED <<workVars, cleanVars, emitVars>>

NextDrain == EventsWaiting

SpecDrain == InitDrain /\ [][NextDrain]_vars

\* C5: events_waiting returns at most batch_size events; they are the first
\* events of the queue, in queue order, however many tokens lie between
\* them (tokens use up none of the batch_size places); what the drain
\* removed is a prefix of the queue holding exactly the returned events and
\* tokens; a FINISHED (REPORT) token was removed exactly when the finish
\* (report) flag is returned.
C5_BatchDrain ==
    hist.it.valid =>
        /\ Len(hist.it.events) <= cfg.batch_size
        /\ hist.before = hist.it.taken \o items
        /\ hist.it.events = SelectEvents(hist.it.taken)
        /\ Truthy(_event_queue) =>
               hist.it.events =
                   SubSeq(SelectEvents(hist.before), 1,
                          Min(cfg.batch_size, Len(SelectEvents(hist.before))))
        /\ hist.it.finish <=> \E x \in Range(hist.it.taken) : IsFinished(x)
        /\ hist.it.report <=> \E x \in Range(hist.it.taken) : IsReport(x)
        /\ \A x \in Range(hist.it.taken) :
               IsStr(x) => (IsFinished(x) \/ IsReport(x))

\* a drain that met tokens between the events of a full batch
C5_Witness ==
    /\ hist.it.valid
    /\ Len(hist.it.events) = cfg.batch_size
    /\ cfg.batch_size > 1
    /\ Len(hist.it.taken) > Len(hist.it.events)
    /\ hist.it.finish

----------------------------------------------------------------------------
(* SpecFilter: queue_event's filter in front of the worker loop *)

\* modules of every scope policy, in single-event and batch mode
FilterCfgs ==
    {[BaseCfg EXCEPT !.in_scope_only = i, !.target_only = t,
                     !.scope_distance_modifier = m, !.batch_size = b] :
         i \in BOOLEAN, t \in BOOLEAN,
         m \in {None, Some(-2), Some(0), Some(1)}, b \in {1, 2}}

\* what the orchestrator may pass to queue_event: events of a watched and
\* of an unwatched type, at every scope distance from the unresolved -1 to
\* MaxDist, tagged target or not; the control tokens; another string
RichItems(i) ==
    {Event(i, t, d, tg, "", "other") :
         t \in {"DNS_NAME", "URL"}, d \in -1..MaxDist, tg \in {{}, {"target"}}}
        \cup {Token("FINISHED", i), Token("REPORT", i), Token("BOGUS", i)}

InitFilter == \E c \in FilterCfgs : Construct(c, RunningScan, <<>>)

NextFilter ==
    \/ /\ hist.calls < MaxFilterCalls
       /\ \E x \in RichItems(hist.calls + 1), fe \in {"true", "false", "raise"} :
              QueueEventBegin(x, fe)
    \/ QueueEventPut
    \/ WorkerSingle
    \/ WorkerBatch
    \/ TaskDone

SpecFilter == InitFilter /\ [][NextFilter]_vars

\* the events handle_event or handle_batch has been invoked with
Handled ==
    UNION {Range(tasks[k].events) :
               k \in {j \in 1..Len(tasks) :
                          tasks[j].kind \in {"handle_event", "handle_batch"}}}

\* C7: with in_scope_only set, every event that reaches handle_event or
\* handle_batch has scope_distance = 0, whatever scope_distance_modifier
\* (an integer or None) and whatever scope_distance the event came with.
C7_InScopeOnly ==
    cfg.in_scope_only => \A e \in Handled : e.scope_distance = 0

\* the cap of the scope algebra for an integer modifier
ScopeCap ==
    IF cfg.in_scope_only \/ cfg.target_only THEN 0
    ELSE IF scan.scope_search_distance + cfg.scope_distance_modifier[1] > 0
         THEN scan.scope_search_distance + cfg.scope_distance_modifier[1]
         ELSE 0

InScopeCap(e) == 0 <= e.scope_distance /\ e.scope_distance <= ScopeCap

\* C8: with an integer scope_distance_modifier k and scope_search_distance
\* d, every event that is enqueued and every event that reaches
\* handle_event or handle_batch has 0 <= scope_distance <= cap, where cap
\* is 0 under in_scope_only or target_only and max(0, d + k) otherwise.
C8_DistanceCap ==
    cfg.scope_distance_modifier # None =>
        /\ \A e \in Handled : InScopeCap(e)
        /\ \A e \in hist.accepted : ~IsStr(e) => InScopeCap(e)
        /\ \A k \in 1..Len(items) : ~IsStr(items[k]) => InScopeCap(items[k])

\* an event at a cap above 0 has reached a handler
C8_Witness ==
    /\ cfg.scope_distance_modifier # None
    /\ ScopeCap > 0
    /\ \E e \in Handled : e.scope_distance = ScopeCap

\* C9: an event the pre-check rejected is never passed to the post-check,
\* nor filter_event called on it; an event either phase rejected is never
\* put on the queue and never passed to handle_event or handle_batch.
C9_FilterMonotonicity ==
    /\ \A x \in hist.prerejected :
           x \notin hist.postchecked /\ x \notin hist.filtered
    /\ \A x \in hist.rejected :
           /\ x \notin hist.accepted
           /\ x \notin Range(items)
           /\ x \notin Handled
           /\ qe.pc = "put" => qe.event # x

\* queue_event has returned from a call whose event the pre-check rejected
C9_Witness ==
    /\ \E x \in hist.prerejected : ~IsStr(x)
    /\ qe.pc = "idle"

----------------------------------------------------------------------------
(* SpecLife: queue_event, set_error_state and _cleanup calls made one
   after another *)

Callback(n) == [name |-> n, callable |-> TRUE]
NotCallable(n) == [name |-> n, callable |-> FALSE]

\* modules with no, one and several registered cleanup callbacks, one entry
\* of the list not callable
LifeCfgs ==
    {[BaseCfg EXCEPT !.cleanup_callbacks = l] :
         l \in {<<>>, <<Callback("cb1")>>,
                <<Callback("cb1"), NotCallable("x"), Callback("cb2")>>}}

InitLife == \E c \in LifeCfgs : Construct(c, RunningScan, <<>>)

NextLife ==
    \/ \E x \in PlainItems(hist.calls + 1) : QueueEventBegin(x, "true")
    \/ QueueEventPut
    \/ SetErrorBegin
    \/ SetErrorDrain
    \/ SetErrorDisarm
    \/ CleanupCheck(1)
    \/ CleanupSet(1)
    \/ CleanupRun(1)

SpecLife == InitLife /\ [][NextLife]_vars

\* cleanup() and then the callable entries of cleanup_callbacks, in
\* registration order, each run by _cleanup call n
RECURSIVE RunBy(_, _)
RunBy(l, n) ==
    IF l = <<>> THEN <<>>
    ELSE (IF Head(l).callable THEN <<[name |-> Head(l).name, call |-> n]>> ELSE <<>>)
             \o RunBy(Tail(l), n)

ExpectedRun == RunBy(<<Callback("cleanup")>> \o cfg.cleanup_callbacks, 1)

IsPrefix(a, b) == Len(a) <= Len(b) /\ a = SubSeq(b, 1, Len(a))

\* C2: once errored is true it stays true; a queue_event call made while
\* errored is true (with an event or a token) adds nothing to the queue;
\* and the first _cleanup() call, made while errored is true, runs
\* cleanup() and the registered callbacks.
C2_ErrorFinality ==
    /\ [](~hist.late_put)
    /\ [][errored => errored']_vars
    /\ []((1 \in hist.cleanup_errored /\ cl[1].pc = "idle") => ran = ExpectedRun)

\* in the error state a queue_event call was turned away and the first
\* _cleanup call has run cleanup() and two callbacks
C2_Witness ==
    /\ errored /\ hist.refused
    /\ 1 \in hist.cleanup_errored /\ cl[1].pc = "idle"
    /\ Len(ran) = 3

\* C3: after N >= 1 _cleanup() calls made one after another, cleanup() and
\* each callback of cleanup_callbacks have run exactly once, cleanup()
\* first and the callbacks in registration order, all of them in the first
\* call; a later call runs nothing.
C3_CleanupIdempotence ==
    /\ IsPrefix(ran, ExpectedRun)
    /\ (hist.cleanups >= 1 /\ cl[1].pc = "idle") => ran = ExpectedRun

\* several calls have returned, for a module with callbacks
C3_Witness ==
    /\ hist.cleanups >= 2 /\ cl[1].pc = "idle"
    /\ Len(ran) = 3

----------------------------------------------------------------------------
(* SpecEmit: handlers calling emit_event against a downstream that
   releases permits when it pleases *)

EmitCfgs == {[BaseCfg EXCEPT !._qsize = n] : n \in 1..MaxQsize}

InitEmit == \E c \in EmitCfgs : Construct(c, RunningScan, <<>>)

NextEmit ==
    \/ \E h \in 1..MaxHandlers, made \in BOOLEAN : EmitBegin(h, made)
    \/ \E h \in 1..MaxHandlers : EmitAcquire(h)
    \/ \E h \in 1..MaxHandlers, raises \in BOOLEAN : EmitCall(h, raises)
    \/ \E h \in 1..MaxHandlers : EmitExcept(h)
    \/ Release
    \/ ScanStop

SpecEmit == InitEmit /\ [][NextEmit]_vars

\* the module's events that have been handed to scan.manager.emit_event
\* and whose permit has not been released: those downstream, and those of
\* a call that raised and whose producer has yet to release
Outstanding ==
    outstanding + Cardinality({h \in 1..MaxHandlers : em[h] = "except"})

\* C1: the number of the module's events handed to
\* scan.manager.emit_event and not yet released never exceeds the gate
\* capacity _qsize, however many handlers emit and however late the
\* downstream releases.
C1_Backpressure == Outstanding <= cfg._qsize

\* the gate is full, a handler waits in the acquire loop, and more events
\* than the capacity have been handed over since the start
C1_Witness ==
    /\ Outstanding = cfg._qsize
    /\ _event_semaphore = 0
    /\ \E h \in 1..MaxHandlers : em[h] = "acquire"
    /\ hist.handed > cfg._qsize

----------------------------------------------------------------------------
(* SpecSingle: a single-event module whose worker thread keeps running *)

SingleCfgs == {c \in WorkerCfgs : ~(c.batch_size > 1)}

InitSingle == \E c \in SingleCfgs : Construct(c, RunningScan, <<>>)

NextSingle ==
    \/ \E x \in PlainItems(hist.calls + 1) : QueueEventBegin(x, "true")
    \/ QueueEventPut
    \/ SetErrorBegin
    \/ SetErrorDrain
    \/ SetErrorDisarm
    \/ WorkerSingle
    \/ TaskDone
    \/ ScanStop

\* start() runs _worker on a thread of its own (lines 266-268): the loop
\* keeps taking iterations
SpecSingle == InitSingle /\ [][NextSingle]_vars /\ WF_vars(WorkerSingle)

\* the event the orchestrator passes in call i
WatchedEvent(i) == Event(i, "DNS_NAME", 0, {}, "", "other")

\* how many times handle_event has been invoked with e
Invocations(e) ==
    Cardinality({k \in 1..Len(tasks) :
                     tasks[k].kind = "handle_event" /\ tasks[k].events = <<e>>})

\* C11: in single-event mode, handle_event is never invoked more than once
\* with an event, and only with events queue_event accepted; and every
\* event queue_event accepted is eventually passed to handle_event exactly
\* once, unless the module becomes errored or the scan begins stopping.
C11_SinglePassThrough ==
    /\ [](\A k \in 1..Len(tasks) :
              tasks[k].kind = "handle_event" =>
                  /\ Len(tasks[k].events) = 1
                  /\ tasks[k].events[1] \in hist.accepted
                  /\ Invocations(tasks[k].events[1]) = 1)
    /\ \A i \in 1..MaxCalls :
           (WatchedEvent(i) \in hist.accepted)
               ~> (Invocations(WatchedEvent(i)) = 1 \/ errored \/ scan.stopping)

\* two accepted events have each reached handle_event once, in a module
\* that is not errored and a scan that is not stopping
C11_Witness ==
    /\ ~errored /\ ~scan.stopping
    /\ \E i, j \in 1..MaxCalls :
           /\ i # j
           /\ {WatchedEvent(i), WatchedEvent(j)} \subseteq hist.accepted
           /\ Invocations(WatchedEvent(i)) = 1
           /\ Invocations(WatchedEvent(j)) = 1

----------------------------------------------------------------------------
(* SpecIdle: batch modules that wait one and two idle units, among other
   modules, in a scan that does not stop *)

IdleCfgs ==
    {[BaseCfg EXCEPT !.batch_size = 2, !.batch_wait = 1],
     [BaseCfg EXCEPT !.batch_size = 3, !.batch_wait = 2]}

InitIdle == \E c \in IdleCfgs : Construct(c, RunningScan, OtherModules)

NextIdle ==
    \/ /\ hist.calls < MaxBatchCalls
       /\ \E x \in PlainItems(hist.calls + 1) : QueueEventBegin(x, "true")
    \/ QueueEventPut
    \/ WorkerBatch
    \/ TaskDone
    \/ SubmitTask
    \/ MainTaskDone
    \/ OtherBatchModule
    \/ ScanFinishing

SpecIdle == InitIdle /\ [][NextIdle]_vars

(* Batching with idle flush *)

\* the longest a queued item waits: batch_wait idle units of IdleEvery
\* worker-loop iterations each
IdleLimit == IdleEvery * cfg.batch_wait

\* C12: in batch mode a queue that holds something is drained within
\* batch_wait idle units (ten worker-loop iterations each) of the last
\* enqueue; a drain that collects k < batch_size events empties the queue
\* and submits exactly one handle_batch call with exactly those k events;
\* and an iteration that finds the queue empty submits nothing, so no second
\* call follows.
C12_IdleFlush ==
    /\ hist.waited < IdleLimit
    /\ hist.it.valid =>
           /\ (hist.it.called /\ Len(hist.it.events) < cfg.batch_size) =>
                  /\ Len(hist.it.taken) = hist.it.queued
                  /\ hist.it.events = SelectEvents(hist.it.taken)
           /\ (hist.it.called /\ hist.it.events # <<>>) =>
                  /\ Len(hist.it.submitted) = 1
                  /\ hist.it.submitted[1].kind = "handle_batch"
                  /\ hist.it.submitted[1].events = hist.it.events
           /\ (hist.it.queued = 0 \/ ~hist.it.called) =>
                  hist.it.submitted = <<>>

\* the idle timeout alone (no stalemate, scan still RUNNING) flushed a
\* partial batch of two events after two idle units
C12_Witness ==
    /\ hist.it.valid /\ hist.it.called /\ hist.it.force
    /\ ~hist.it.stalemate /\ scan.status = "RUNNING"
    /\ cfg.batch_wait = 2
    /\ Len(hist.it.events) = 2 /\ Len(hist.it.events) < cfg.batch_size
    /\ Len(hist.it.submitted) = 1
    /\ items = <<>>

----------------------------------------------------------------------------
(* SpecEmitLive: SpecEmit with handler threads that keep running *)

\* the acquire loop retries every 0.1 s (lines 218-221) and a handler that
\* holds a permit goes on to call scan.manager.emit_event (line 223)
SpecEmitLive ==
    /\ InitEmit
    /\ [][NextEmit]_vars
    /\ \A h \in 1..MaxHandlers :
           /\ WF_vars(EmitAcquire(h))
           /\ WF_vars(\E raises \in BOOLEAN : EmitCall(h, raises))

\* the emit_event calls that are at position pc
At(pc) == Cardinality({h \in 1..MaxHandlers : em[h] = pc})

\* with no permit released downstream, at most _qsize emissions reach
\* scan.manager.emit_event, and each permit released downstream lets one
\* more through
C13_DownstreamOnly == hist.handed <= cfg._qsize + hist.released

\* C13: the permits taken from the gate are those of the emissions that
\* reached scan.manager.emit_event or are about to, less the permits
\* released downstream or by a producer whose call raised, so that at most
\* _qsize plus the released permits reach it and the others stay in the
\* acquire loop; and whenever a permit is free while an emission waits in
\* the acquire loop, one more emission eventually reaches
\* scan.manager.emit_event, unless the scan begins stopping.
C13_BackpressureRelease ==
    /\ [](/\ _event_semaphore >= 0
          /\ cfg._qsize - _event_semaphore =
                 hist.handed + At("emit") - hist.released - hist.giveback
          /\ hist.handed <= cfg._qsize + hist.released + hist.giveback)
    /\ \A n \in 0..MaxEmits :
           (hist.handed = n /\ _event_semaphore > 0 /\ At("acquire") > 0)
               ~> (hist.handed > n \/ scan.stopping)

\* the gate filled up with an emission blocked, a permit was released
\* downstream, and one more emission reached scan.manager.emit_event
C13_Witness ==
    /\ hist.released = 1 /\ hist.giveback = 0
    /\ hist.handed = cfg._qsize + 1
    /\ cfg._qsize = MaxQsize
    /\ At("acquire") > 0
    /\ ~scan.stopping

----------------------------------------------------------------------------
(* SpecProps: the pre-check, the priority property and _setup, each applied
   once to a freshly constructed module *)

\* the largest magnitude of a configured _priority
MaxPriority == 7

\* the priority property without the lower clamp max(1, ...)
priority_no_floor(c) == Min(5, c._priority)

\* the priority property: int(max(1, min(5, self._priority)))
priority(c) == Max(1, Min(5, c._priority))

\* status_codes (line 272)
status_codes(status) ==
    CASE status = "False" -> "hard-fail"
      [] status = "None" -> "soft-fail"
      [] status = "True" -> "success"

\* what setup() may do: return True, False or None, return a pair
\* (status, msg), return something else, or raise
SetupResults ==
    {[kind |-> "value", status |-> s] : s \in {"True", "False", "None"}}
        \cup {[kind |-> "pair", status |-> s, msg |-> "why"] :
                  s \in {"True", "False", "None"}}
        \cup {[kind |-> "value", status |-> "other"]}
        \cup {[kind |-> "raise", exc |-> x] : x \in {"WordlistError", "Exception"}}

\* set_error_state() run to its end with no other thread acting: the
\* errored flag, the queue handle and the queue's contents it leaves
set_error_state(err, h, q) ==
    IF ~err
    THEN IF Truthy(h)
         THEN [errored |-> TRUE, _event_queue |-> "False", items |-> <<>>]
         ELSE [errored |-> TRUE, _event_queue |-> event_queue(h), items |-> q]
    ELSE [errored |-> err, _event_queue |-> h, items |-> q]

\* _setup with the test for WordlistError (lines 286-287) left out
_setup_no_wordlist(r) ==
    IF r.kind = "raise"
    THEN [status |-> "False", msg |-> r.exc, set_error |-> TRUE]
    ELSE IF r.kind = "pair"
    THEN [status |-> r.status, msg |-> r.msg, set_error |-> FALSE]
    ELSE IF r.status \in {"True", "False", "None"}
    THEN [status |-> r.status, msg |-> status_codes(r.status), set_error |-> FALSE]
    ELSE [status |-> r.status, msg |-> "KeyError", set_error |-> TRUE]

\* _setup, r being what setup() does: the (status, msg) it returns and
\* whether it called set_error_state. A value that is no key of
\* status_codes raises KeyError at line 282, after status was assigned.
_setup(r) ==
    IF r.kind = "raise"
    THEN [status |-> IF r.exc = "WordlistError" THEN "None" ELSE "False",
          msg |-> r.exc, set_error |-> TRUE]
    ELSE IF r.kind = "pair"
    THEN [status |-> r.status, msg |-> r.msg, set_error |-> FALSE]
    ELSE IF r.status \in {"True", "False", "None"}
    THEN [status |-> r.status, msg |-> status_codes(r.status), set_error |-> FALSE]
    ELSE [status |-> r.status, msg |-> "KeyError", set_error |-> TRUE]

\* nothing has been applied to the module yet
Fresh == ~hist.pre.valid /\ ~hist.prio.valid /\ ~hist.setup.valid

\* one call of _event_precheck(x)
EventPrecheck(x) ==
    /\ Fresh
    /\ hist' = [hist EXCEPT !.pre =
           [valid |-> TRUE, event |-> x, result |-> _event_precheck(cfg, x)]]
    /\ UNCHANGED <<cfg, scan, others, qe, se>>
    /\ UNCHANGED <<queueVars, workVars, cleanVars, emitVars>>

\* one read of the priority property
ReadPriority ==
    /\ Fresh
    /\ hist' = [hist EXCEPT !.prio = [valid |-> TRUE, value |-> priority(cfg)]]
    /\ UNCHANGED <<cfg, scan, others, qe, se>>
    /\ UNCHANGED <<queueVars, workVars, cleanVars, emitVars>>

\* one call of _setup(), setup() doing r
Setup(r) ==
    /\ Fresh
    /\ LET s == _setup(r)
           e == IF s.set_error
                THEN set_error_state(errored, _event_queue, items)
                ELSE [errored |-> errored, _event_queue |-> _event_queue,
                      items |-> items]
       IN /\ errored' = e.errored
          /\ _event_queue' = e._event_queue
          /\ items' = e.items
          /\ hist' = [hist EXCEPT !.setup =
                 [valid |-> TRUE, result |-> r, status |-> s.status,
                  msg |-> s.msg]]
    /\ UNCHANGED <<cfg, scan, others, qe, se>>
    /\ UNCHANGED <<workVars, cleanVars, emitVars>>

\* modules by name, declared watched types and target_only, and modules by
\* configured _priority
PropCfgs ==
    {[BaseCfg EXCEPT !.name = n, !.watched_events = w, !.target_only = t] :
         n \in {"base", "speculate"},
         w \in {{"IP_ADDRESS"}, {"IP_RANGE", "IP_ADDRESS"}, {"IP_RANGE", "DNS_NAME"},
                {"IP_RANGE", "IP_ADDRESS", "DNS_NAME"}, {"*"}},
         t \in BOOLEAN}
        \cup {[BaseCfg EXCEPT !._priority = p] : p \in -MaxPriority..MaxPriority}

\* the events _event_precheck is applied to: by type, source type (""
\* when the source has none), producing module and tags
SpeculatedItems ==
    {Event(1, t, 0, tg, st, m) :
         t \in {"IP_ADDRESS", "IP_RANGE", "DNS_NAME"},
         st \in {"IP_RANGE", "DNS_NAME", ""},
         m \in {"speculate", "other"},
         tg \in {{}, {"target"}}}
        \cup {Token("FINISHED", 1), Token("BOGUS", 1)}

InitProps == \E c \in PropCfgs : Construct(c, RunningScan, <<>>)

NextProps ==
    \/ \E x \in SpeculatedItems : EventPrecheck(x)
    \/ ReadPriority
    \/ \E r \in SetupResults : Setup(r)

SpecProps == InitProps /\ [][NextProps]_vars

\* the watched-type check and the target_only check let x through
PassesTypeAndTarget(x) ==
    /\ ("*" \in cfg.watched_events \/ x.type \in cfg.watched_events)
    /\ cfg.target_only => "target" \in x.tags

\* an IP_ADDRESS speculated from an IP_RANGE arrives at another module
\* than speculate, which lists both types in watched_events
SpeculationCollision(x) ==
    /\ x.type = "IP_ADDRESS"
    /\ x.source_type = "IP_RANGE"
    /\ x.module = "speculate"
    /\ cfg.name # "speculate"
    /\ {"IP_RANGE", "IP_ADDRESS"} \subseteq cfg.watched_events

\* C14: for an event that passes the watched-type and target_only checks,
\* _event_precheck rejects with reason "module consumes IP ranges directly"
\* exactly in the speculation collision, and accepts in every other case.
C14_SpeculationCollision ==
    (hist.pre.valid /\ ~IsStr(hist.pre.event)
         /\ PassesTypeAndTarget(hist.pre.event)) =>
        IF SpeculationCollision(hist.pre.event)
        THEN hist.pre.result = [acceptable |-> FALSE,
                                reason |-> "module consumes IP ranges directly"]
        ELSE hist.pre.result = [acceptable |-> TRUE, reason |-> ""]

\* the pre-check has rejected a collision
C14_Witness ==
    /\ hist.pre.valid /\ ~IsStr(hist.pre.event)
    /\ PassesTypeAndTarget(hist.pre.event)
    /\ SpeculationCollision(hist.pre.event)
    /\ ~hist.pre.result.acceptable

\* C15: for every configured integer _priority, the priority property
\* returns a value of 1..5: _priority itself when it lies in 1..5, 1 when
\* it is below 1, and 5 when it is above 5.
C15_PriorityClamping ==
    hist.prio.valid =>
        /\ hist.prio.value \in 1..5
        /\ cfg._priority \in 1..5 => hist.prio.value = cfg._priority
        /\ cfg._priority < 1 => hist.prio.value = 1
        /\ cfg._priority > 5 => hist.prio.value = 5

\* the property has been read on a module configured below the range
C15_Witness == hist.prio.valid /\ cfg._priority < 0 /\ hist.prio.value = 1

\* the outcome the returned status stands for
Outcome(status) ==
    IF status = "True" THEN "success"
    ELSE IF status = "False" THEN "hard failure"
    ELSE IF status = "None" THEN "soft failure"
    ELSE "none of them"

\* C19: _setup returns success when setup() returns True, hard failure when
\* it returns False, soft failure when it returns None, the status of the
\* pair when setup() returns a pair; soft failure when setup() raises a
\* WordlistError; hard failure, with the module in errored state, when
\* setup() raises another exception.
C19_SetupOutcome ==
    hist.setup.valid =>
        LET r == hist.setup.result
            got == Outcome(hist.setup.status)
        IN /\ (r.kind = "value" /\ r.status = "True") => got = "success"
           /\ (r.kind = "value" /\ r.status = "False") => got = "hard failure"
           /\ (r.kind = "value" /\ r.status = "None") => got = "soft failure"
           /\ r.kind = "pair" => hist.setup.status = r.status
           /\ (r.kind = "raise" /\ r.exc = "WordlistError") => got = "soft failure"
           /\ (r.kind = "raise" /\ r.exc # "WordlistError") =>
                  got = "hard failure" /\ errored

\* setup() raised a WordlistError and _setup returned soft failure
C19_Witness ==
    /\ hist.setup.valid
    /\ hist.setup.result.kind = "raise"
    /\ hist.setup.result.exc = "WordlistError"
    /\ hist.setup.status = "None"

----------------------------------------------------------------------------
(* Permit accounting of emit_event (SpecEmit) *)

\* the ways an emit_event call returns
EmitOutcomes == {"stopping", "no event", "aborted", "raised", "returned"}

\* C16: when an emit_event call has returned, it has taken exactly one
\* permit from the gate if scan.manager.emit_event was called and returned
\* normally, and none on balance in every other case: the scan was stopping
\* on entry, no event was made, the scan began stopping while the call
\* waited for a permit, or scan.manager.emit_event raised.
C16_PermitAccounting ==
    \A h \in 1..MaxHandlers :
        (em[h] = "idle" /\ hist.em[h].outcome # "") =>
            /\ hist.em[h].outcome \in EmitOutcomes
            /\ hist.em[h].net = IF hist.em[h].outcome = "returned" THEN 1 ELSE 0

\* one call has returned after scan.manager.emit_event raised, another
\* after it returned normally
C16_Witness ==
    \E h, g \in 1..MaxHandlers :
        /\ em[h] = "idle" /\ hist.em[h].outcome = "raised" /\ hist.em[h].net = 0
        /\ em[g] = "idle" /\ hist.em[g].outcome = "returned" /\ hist.em[g].net = 1

----------------------------------------------------------------------------
(* Output modules (SpecSingle) *)

\* the handle_event invocations, in the order they began
HandleEventCalls == SelectSeq(tasks, LAMBDA t : t.kind = "handle_event")

\* C17: for an output module in single-event mode, every handle_event
\* invocation runs on the worker loop itself, so that it has returned
\* before the next begins and none is in the internal pool; the
\* invocations come in the order the events were enqueued, and none passes
\* over an enqueued event other than one set_error_state removed.
C17_OutputFifo ==
    (cfg._type = "output" /\ ~(cfg.batch_size > 1)) =>
        LET calls == HandleEventCalls IN
        /\ \A k \in 1..Len(calls) : calls[k].sync
        /\ \A k \in 1..Len(PoolTasks(tasks)) :
               PoolTasks(tasks)[k].kind # "handle_event"
        /\ \A j, k \in 1..Len(calls) :
               j < k => calls[j].events[1].id < calls[k].events[1].id
        /\ \A k \in 1..Len(calls) :
               \A e \in hist.accepted :
                   (~IsStr(e) /\ e.id < calls[k].events[1].id) =>
                       \/ \E j \in 1..(k - 1) : calls[j].events = <<e>>
                       \/ e \in hist.dropped

\* an output module has handled three events in the order of their enqueue
C17_Witness ==
    /\ cfg._type = "output"
    /\ Len(HandleEventCalls) = 3
    /\ \A k \in 1..3 : HandleEventCalls[k].events[1].id = k

----------------------------------------------------------------------------
(* SpecFail: a worker loop out of which an exception may escape *)

\* queue_event calls made in one behaviour of SpecFail
MaxFailCalls == 2

\* what the iteration in which the exception is raised leaves in the
\* queue: everything, or (after_get) what its get or drain left
LeftByIteration(after_get) ==
    IF ~after_get \/ ~Truthy(_event_queue) \/ items = <<>> THEN items
    ELSE IF cfg.batch_size > 1
         THEN events_waiting(cfg, _event_queue, items).rest
         ELSE Tail(items)

\* the worker's call of set_error_state begins (lines 454-458): the
\* position the worker thread is left at, "exited" when the call returns
WorkerSetErrorBegin ==
    IF ~errored
    THEN /\ errored' = TRUE
         /\ wpc' = IF Truthy(_event_queue) THEN "drain" ELSE "exited"
    ELSE /\ errored' = errored
         /\ wpc' = "exited"

\* lines 347-354 without the clause for ScanCancelledError: it is handled
\* as any other exception
WorkerRaise_no_cancel_clause(exc, after_get) ==
    /\ wpc = "run"
    /\ ~scan.stopping
    /\ items' = LeftByIteration(after_get)
    /\ _event_queue' = event_queue(_event_queue)
    /\ hist' = [hist EXCEPT !.wexit =
           [valid |-> TRUE, exc |-> exc, errored_before |-> errored,
            queued |-> Range(LeftByIteration(after_get))]]
    /\ IF exc = "KeyboardInterrupt"
       THEN /\ scan' = [scan EXCEPT !.stopping = TRUE]
            /\ wpc' = "exited"
            /\ UNCHANGED errored
       ELSE /\ WorkerSetErrorBegin
            /\ UNCHANGED scan
    /\ UNCHANGED <<cfg, others, qe, se>>
    /\ UNCHANGED <<_batch_idle, iterations, tasks, ndone, main_pool>>
    /\ UNCHANGED <<cleanVars, emitVars>>

\* lines 347-354: an exception escapes an iteration of the loop
WorkerRaise(exc, after_get) ==
    /\ wpc = "run"
    /\ ~scan.stopping
    /\ items' = LeftByIteration(after_get)
    /\ _event_queue' = event_queue(_event_queue)
    /\ hist' = [hist EXCEPT !.wexit =
           [valid |-> TRUE, exc |-> exc, errored_before |-> errored,
            queued |-> Range(LeftByIteration(after_get))]]
    /\ IF exc = "KeyboardInterrupt"
       THEN /\ scan' = [scan EXCEPT !.stopping = TRUE]
            /\ wpc' = "exited"
            /\ UNCHANGED errored
       ELSE IF exc = "ScanCancelledError"
       THEN /\ wpc' = "exited"
            /\ UNCHANGED <<scan, errored>>
       ELSE /\ WorkerSetErrorBegin
            /\ UNCHANGED scan
    /\ UNCHANGED <<cfg, others, qe, se>>
    /\ UNCHANGED <<_batch_idle, iterations, tasks, ndone, main_pool>>
    /\ UNCHANGED <<cleanVars, emitVars>>

\* lines 460-462 in the worker's call of set_error_state
WorkerSetErrorDrain ==
    /\ wpc = "drain"
    /\ IF items # <<>>
       THEN /\ items' = Tail(items)
            /\ hist' = [hist EXCEPT !.dropped = @ \cup {Head(items)}]
            /\ wpc' = wpc
       ELSE /\ wpc' = "disarm"
            /\ UNCHANGED <<items, hist>>
    /\ UNCHANGED <<cfg, scan, others, errored, _event_queue, qe, se>>
    /\ UNCHANGED <<_batch_idle, iterations, tasks, ndone, main_pool>>
    /\ UNCHANGED <<cleanVars, emitVars>>

\* line 465 in the worker's call of set_error_state; _worker returns
WorkerSetErrorDisarm ==
    /\ wpc = "disarm"
    /\ _event_queue' = "False"
    /\ wpc' = "exited"
    /\ UNCHANGED <<cfg, scan, others, errored, items, qe, se, hist>>
    /\ UNCHANGED <<_batch_idle, iterations, tasks, ndone, main_pool>>
    /\ UNCHANGED <<cleanVars, emitVars>>

InitFail == \E c \in WorkerCfgs : Construct(c, RunningScan, <<>>)

NextFail ==
    \/ /\ hist.calls < MaxFailCalls
       /\ \E x \in PlainItems(hist.calls + 1) : QueueEventBegin(x, "true")
    \/ QueueEventPut
    \/ SetErrorBegin
    \/ SetErrorDrain
    \/ SetErrorDisarm
    \/ WorkerSingle
    \/ WorkerBatch
    \/ TaskDone
    \/ \E exc \in {"KeyboardInterrupt", "ScanCancelledError", "Exception"},
          after_get \in BOOLEAN : WorkerRaise(exc, after_get)
    \/ WorkerSetErrorDrain
    \/ WorkerSetErrorDisarm

SpecFail == InitFail /\ [][NextFail]_vars

\* the loop has ended by an exception of class exc
EndedBy(exc) == wpc = "exited" /\ hist.wexit.valid /\ hist.wexit.exc = exc

\* C18: when the loop has ended by an exception other than a scan-cancelled
\* error or a keyboard interrupt, errored is true and, if the module was
\* not errored already, the queue handle is disarmed and nothing that was
\* queued when the exception escaped is left in the queue; the step in
\* which the loop ends by a scan-cancelled error leaves errored as it was.
C18_WorkerFailure ==
    /\ [](EndedBy("Exception") =>
              /\ errored
              /\ ~hist.wexit.errored_before =>
                     /\ _event_queue = "False"
                     /\ \A x \in hist.wexit.queued : x \notin Range(items))
    /\ [][(wpc = "run" /\ wpc' # "run" /\ hist'.wexit.valid
              /\ hist'.wexit.exc = "ScanCancelledError")
             => (wpc' = "exited" /\ errored' = errored)]_vars

\* the loop has ended by an exception that escaped while two items were
\* queued, in a module that was not errored before
C18_Witness ==
    /\ EndedBy("Exception")
    /\ ~hist.wexit.errored_before
    /\ Cardinality(hist.wexit.queued) = 2
    /\ _event_queue = "False"

----------------------------------------------------------------------------
(* SpecFlush: _handle_batch applied to any queue content of a batch module *)

\* one call of _handle_batch(force), as the worker loop makes it (line 321)
HandleBatch(force) ==
    /\ ~hist.it.valid
    /\ cfg.batch_size > 1
    /\ LET hb == _handle_batch(cfg, _event_queue, items, _batch_idle, force) IN
       /\ _batch_idle' = hb.idle
       /\ _event_queue' = event_queue(_event_queue)
       /\ items' = hb.rest
       /\ tasks' = tasks \o hb.submitted
       /\ hist' = [hist EXCEPT !.it =
              [NoIteration EXCEPT !.valid = TRUE, !.force = force,
                                  !.queued = num_queued_events(_event_queue, items),
                                  !.called = hb.called,
                                  !.events = hb.w.events,
                                  !.finish = hb.w.finish,
                                  !.report = hb.w.report,
                                  !.taken = Taken(items, hb.rest),
                                  !.submitted = hb.submitted]]
    /\ UNCHANGED <<cfg, scan, others, errored, qe, se>>
    /\ UNCHANGED <<iterations, wpc, ndone, main_pool>>
    /\ UNCHANGED <<cleanVars, emitVars>>

NextFlush == \E force \in BOOLEAN : HandleBatch(force)

SpecFlush == InitDrain /\ [][NextFlush]_vars

(* Token priority in a batch *)

\* the last drain removed a token of value v from the queue
Observed(v) == \E x \in Range(hist.it.taken) : IsStr(x) /\ x.val = v

\* C20: when a batch drain returns at least one event, exactly one
\* handle_batch task is submitted, chained with finish if the drain
\* observed a FINISHED token (whether or not it observed a REPORT token
\* too), with report if it observed only a REPORT token, and with no
\* callback if it observed no token.
C20_TokenPriority ==
    (hist.it.valid /\ hist.it.called /\ hist.it.events # <<>>) =>
        /\ Len(hist.it.submitted) = 1
        /\ hist.it.submitted[1].kind = "handle_batch"
        /\ hist.it.submitted[1].on_finish =
               IF Observed("FINISHED") THEN "finish"
               ELSE IF Observed("REPORT") THEN "report"
               ELSE "None"

\* a drain returned an event and observed both tokens, REPORT first
C20_Witness ==
    /\ hist.it.valid /\ hist.it.called /\ hist.it.events # <<>>
    /\ Observed("FINISHED") /\ Observed("REPORT")
    /\ IsReport(hist.it.taken[1])
    /\ hist.it.submitted[1].on_finish = "finish"

----------------------------------------------------------------------------
(* The race between queue_event and set_error_state (SpecLife) *)

\* queue_event has never called put on the disarmed handle
NoPutOnFalse == ~hist.put_on_false

\* with both calls returned and the module errored, the queue object holds
\* nothing
NothingLeft == (errored /\ qe.pc = "idle" /\ se = "idle") => items = <<>>

\* C21: however a queue_event call that passed its test of errored is
\* interleaved with a set_error_state call, queue_event never attempts put
\* on the disarmed queue handle (False), and once both calls have returned
\* nothing is left stored in the module's queue object.
C21_EnqueueErrorRace == NoPutOnFalse /\ NothingLeft


----------------------------------------------------------------------------
(* Two _cleanup() calls at the same time (SpecCleanup) *)

\* each thread is somewhere in lines 433-437; nothing serialises the two
NextCleanup ==
    \/ CleanupCheck(1)
    \/ CleanupSet(1)
    \/ CleanupRun(1)
    \/ CleanupCheck(2)
    \/ CleanupSet(2)
    \/ CleanupRun(2)

SpecCleanup == InitLife /\ [][NextCleanup]_vars

\* how many times the callback called name was run
TimesRun(name) == Cardinality({k \in 1..Len(ran) : ran[k].name = name})

\* C22: however two _cleanup() calls running at the same time on one module
\* are interleaved, cleanup() and each callback of cleanup_callbacks are run
\* at most once in total.
C22_ConcurrentCleanup ==
    \A k \in 1..Len(CleanupList(cfg)) : TimesRun(CleanupList(cfg)[k].name) <= 1

====
